---- MODULE Spec2Model ----
(***************************************************************************)
(* Model of src/cache.h: the LFU eviction policy (class LFUCache) and the  *)
(* bounded cache (class Cache) that owns one policy and one backing store. *)
(* A cache used by one caller is followed call by call, each public method *)
(* being one action; a cache called by several threads is followed         *)
(* statement by statement, with m_mtx and the lock_guard of each method.   *)
(***************************************************************************)
EXTENDS Integers, Sequences, FiniteSets, TLC

\* ------------------------------------------------------------------ bounds
MaxValue == 2
MaxCapacity == 2
\* The decay border of a cache is SmallDecayBorder or the default one; that of
\* a policy used on its own is at most MaxPolicyDecayBorder, or the default one.
SmallDecayBorder == 1
MaxPolicyDecayBorder == 2
\* An object with the default decay border is followed until its decay counter
\* has reached MaxCounter.
MaxCounter == 4

\* LFUCache::LFUCache(size_t decay_border=100)
DefaultDecayBorder == 100

Keys == {"A", "B", "C"}
Values == 1..MaxValue
Capacities == 0..MaxCapacity
DecayBorders == {SmallDecayBorder, DefaultDecayBorder}
PolicyDecayBorders == (1..MaxPolicyDecayBorder) \cup {DefaultDecayBorder}

\* ------------------------------------------------------------------ state
VARIABLES
    m_max_size,     \* Cache::m_max_size
    m_cache_algo,   \* Cache::m_cache_algo, an LFUCache: record of its members
    m_data,         \* Cache::m_data, the backing store: a function key -> value
    last,           \* the last completed call and its outcome
    written,        \* history: key -> value of its latest returned Write, for
                    \*   the keys no Write of another key has evicted since
    expected,       \* history: as written, without the keys Delete was
                    \*   called for since
    played,         \* history: the calls made so far, while they are the first
                    \*   calls of Scenario; <<Off>> afterwards
    audit,          \* whether this behaviour keeps the history written
    fresh,          \* history of a behaviour of first Writes only: the keys it
                    \*   has not written yet
    m_mtx,          \* Cache::m_mtx: the set holding the thread that owns it
    thread          \* the calling threads: for each its place in the method
                    \*   it is running, that method's arguments and locals

vars == <<m_max_size, m_cache_algo, m_data, last, written, expected, played,
          audit, fresh, m_mtx, thread>>

\* ------------------------------------------------------- generic helpers
Range(f) == {f[x] : x \in DOMAIN f}

\* The permutations of a finite set, as sequences: the orders in which a
\* std::unordered_map over these keys may be iterated.
Orders(S) == {s \in [1..Cardinality(S) -> S] : Range(s) = S}

\* The keys of the sequence ord that are in S, in ord's order.
Restrict(ord, S) == SelectSeq(ord, LAMBDA k : k \in S)

\* std::unordered_map::erase(key)
MapErase(f, k) == [x \in (DOMAIN f) \ {k} |-> f[x]]

\* As MapPut, but keeping the value of a key that is present already
\* (std::unordered_map::insert in place of operator[]).
MapInsert(f, k, v) == [x \in (DOMAIN f) \cup {k} |-> IF x \in DOMAIN f THEN f[x] ELSE v]

\* std::unordered_map::operator[](key) = value
MapPut(f, k, v) == [x \in (DOMAIN f) \cup {k} |-> IF x = k THEN v ELSE f[x]]

EmptyMap == [x \in {} |-> 0]

\* The function f without the keys of S.
Without(f, S) == [x \in (DOMAIN f) \ S |-> f[x]]


\* ------------------------------------------------------- std::multimap
\* m_key_frequence is a sequence of nodes [first |-> frequency, second |-> key]
\* in the multimap's iteration order.  An iterator is modelled by the node it
\* designates.

\* std::multimap::emplace: the new node goes at the upper bound of its key,
\* after every node whose frequency is not larger.
emplace(mm, node) ==
    LET n == Cardinality({i \in 1..Len(mm) : mm[i].first <= node.first})
    IN  SubSeq(mm, 1, n) \o <<node>> \o SubSeq(mm, n + 1, Len(mm))

\* std::multimap::erase(iterator)
erase(mm, it) == SelectSeq(mm, LAMBDA e : e # it)

\* ------------------------------------------------------------ LFUCache
\* An LFUCache value is a record
\*   [m_key_frequence, m_key_element, m_decay_counter, m_decay_border, thrown]
\* where thrown records that the call left by an exception.

LFUCache(decay_border) ==
    [m_key_frequence |-> <<>>,
     m_key_element   |-> EmptyMap,
     m_decay_counter |-> 0,
     m_decay_border  |-> decay_border,
     thrown          |-> FALSE]

Tracked(p) == DOMAIN p.m_key_element

\* The tracked frequency of key, read through its iterator.
Freq(p, key) == p.m_key_element[key].first

\* As decayStep, but without storing the new iterator in m_key_element.
decayStepStale(p, k) ==
    LET it == p.m_key_element[k]
        up == [first |-> it.first \div 2, second |-> it.second]
    IN  [p EXCEPT !.m_key_frequence = emplace(erase(@, it), up)]

\* One iteration of decay's loop, for the element of key k.
decayStep(p, k) ==
    LET it == p.m_key_element[k]
        up == [first |-> it.first \div 2, second |-> it.second]
    IN  [p EXCEPT !.m_key_frequence = emplace(erase(@, it), up),
                  !.m_key_element   = MapPut(@, k, up)]

RECURSIVE decayLoop(_, _)
decayLoop(p, ks) ==
    IF ks = <<>> THEN p ELSE decayLoop(decayStep(p, Head(ks)), Tail(ks))

\* As decay, but without m_decay_counter = 0.
decayNoReset(p, ord) == decayLoop(p, Restrict(ord, Tracked(p)))

\* LFUCache::decay; ord is the iteration order of m_key_element.
decay(p, ord) ==
    [decayLoop(p, Restrict(ord, Tracked(p))) EXCEPT !.m_decay_counter = 0]

\* As Increment, but with > for >= in the test of the decay counter.
IncrementLate(p, key, ord) ==
    IF key \notin Tracked(p)
    THEN [p EXCEPT !.thrown = TRUE]
    ELSE LET element == p.m_key_element[key]
             updated == [first |-> element.first + 1, second |-> element.second]
             q == [p EXCEPT !.m_key_frequence = emplace(erase(@, element), updated),
                            !.m_key_element   = MapPut(@, key, updated),
                            !.m_decay_counter = @ + 1]
         IN  IF q.m_decay_counter > q.m_decay_border THEN decay(q, ord) ELSE q

\* LFUCache::Increment
Increment(p, key, ord) ==
    IF key \notin Tracked(p)
    THEN [p EXCEPT !.thrown = TRUE]                 \* m_key_element.at(key)
    ELSE LET element == p.m_key_element[key]
             updated == [first |-> element.first + 1, second |-> element.second]
             q == [p EXCEPT !.m_key_frequence = emplace(erase(@, element), updated),
                            !.m_key_element   = MapPut(@, key, updated),
                            !.m_decay_counter = @ + 1]
         IN  IF q.m_decay_counter >= q.m_decay_border THEN decay(q, ord) ELSE q

\* LFUCache::Insert
Insert(p, key, ord) ==
    LET q == IF key \notin Tracked(p)
             THEN LET node == [first |-> 1, second |-> key]
                  IN  [p EXCEPT !.m_key_frequence = emplace(@, node),
                                !.m_key_element   = MapPut(@, key, node)]
             ELSE p
    IN  Increment(q, key, ord)

\* As Remove, but erasing by key without m_key_element.at(key): an untracked
\* key is passed over in silence and counted.
RemoveLenient(p, key) ==
    IF key \notin Tracked(p)
    THEN [p EXCEPT !.m_decay_counter = @ + 1]
    ELSE [p EXCEPT !.m_key_frequence = erase(@, p.m_key_element[key]),
                   !.m_key_element   = MapErase(@, key),
                   !.m_decay_counter = @ + 1]

\* LFUCache::Remove
Remove(p, key) ==
    IF key \notin Tracked(p)
    THEN [p EXCEPT !.thrown = TRUE]                 \* m_key_element.at(key)
    ELSE [p EXCEPT !.m_key_frequence = erase(@, p.m_key_element[key]),
                   !.m_key_element   = MapErase(@, key),
                   !.m_decay_counter = @ + 1]

\* As Replace, but from the other end of m_key_frequence (rbegin for begin).
ReplaceLast(p) ==
    IF p.m_key_frequence = <<>> THEN {}
    ELSE {p.m_key_frequence[Len(p.m_key_frequence)].second}

\* LFUCache::Replace: the keys it may return; none when it throws.
Replace(p) ==
    IF p.m_key_frequence = <<>> THEN {} ELSE {p.m_key_frequence[1].second}

\* After an exception has propagated out of the policy the object lives on.
Caught(p) == [p EXCEPT !.thrown = FALSE]

\* ---------------------------------------------------------------- Cache
\* Results of the private helpers are records
\*   [algo, data, victim, touched]
\* algo.thrown tells that the helper left by an exception; victim is the set
\* holding the key Replace() returned (empty when refresh was not reached);
\* touched counts the Increment calls made for each key.

NoTouch == [k \in Keys |-> 0]
Touch(t, k) == [t EXCEPT ![k] = @ + 1]

\* As refresh, but without m_data.erase(key).
refreshKeepsEntry(algo, data, k, ord) ==
    IF Replace(algo) = {}
    THEN [algo |-> [algo EXCEPT !.thrown = TRUE],
          data |-> data, victim |-> {}, touched |-> NoTouch]
    ELSE LET key == CHOOSE x \in Replace(algo) : TRUE
             removed == Remove(algo, key)
         IN  IF removed.thrown
             THEN [algo |-> removed, data |-> data, victim |-> {key},
                   touched |-> NoTouch]
             ELSE [algo |-> Insert(removed, k, ord),
                   data |-> data,
                   victim |-> {key}, touched |-> Touch(NoTouch, k)]

\* As refresh, but without m_cache_algo.Insert(k).
refreshForgetsInsert(algo, data, k, ord) ==
    IF Replace(algo) = {}
    THEN [algo |-> [algo EXCEPT !.thrown = TRUE],
          data |-> data, victim |-> {}, touched |-> NoTouch]
    ELSE LET key == CHOOSE x \in Replace(algo) : TRUE
             removed == Remove(algo, key)
         IN  [algo |-> removed,
              data |-> IF removed.thrown THEN data ELSE MapErase(data, key),
              victim |-> {key}, touched |-> NoTouch]

\* Cache::refresh
refresh(algo, data, k, ord) ==
    IF Replace(algo) = {}
    THEN [algo |-> [algo EXCEPT !.thrown = TRUE],   \* std::out_of_range
          data |-> data, victim |-> {}, touched |-> NoTouch]
    ELSE LET key == CHOOSE x \in Replace(algo) : TRUE
             removed == Remove(algo, key)
         IN  IF removed.thrown
             THEN [algo |-> removed, data |-> data, victim |-> {key},
                   touched |-> NoTouch]
             ELSE [algo |-> Insert(removed, k, ord),
                   data |-> MapErase(data, key),
                   victim |-> {key}, touched |-> Touch(NoTouch, k)]

\* The loop of Cache::Items over the keys ks of m_data, in iteration order.
RECURSIVE ItemsLoop(_, _, _, _)
ItemsLoop(algo, ks, ord, touched) ==
    IF ks = <<>> \/ algo.thrown
    THEN [algo |-> algo, touched |-> touched]
    ELSE ItemsLoop(Increment(algo, Head(ks), ord), Tail(ks), ord,
                   Touch(touched, Head(ks)))

\* What a call did: op names the method; thrown tells whether it left by an
\* exception; ret is what Read (key -> value read) or Items (the copy of
\* m_data) returned; found is what Contains returned.
Outcome(op, thrown, ret, found, victim, touched) ==
    [op |-> op, thrown |-> thrown, ret |-> ret, found |-> found,
     victim |-> victim, touched |-> touched]

\* The calls of the scenario Write(A, .); Write(B, .); Read(A); Write(C, .);
\* arg holds the value a Write was given.
Call(op, k, arg) == [op |-> op, k |-> k, arg |-> arg]
Off == Call("off", "A", {})
Scenario == <<[op |-> "Write", k |-> "A"], [op |-> "Write", k |-> "B"],
              [op |-> "Read", k |-> "A"], [op |-> "Write", k |-> "C"]>>
\* The value the call Write(k, v) was given.
Written(call) == CHOOSE v \in call.arg : TRUE
Shape(calls) == [i \in DOMAIN calls |-> [op |-> calls[i].op, k |-> calls[i].k]]
Play(call) ==
    IF /\ Len(played) < Len(Scenario)
       /\ Shape(Append(played, call)) = SubSeq(Scenario, 1, Len(played) + 1)
    THEN Append(played, call) ELSE <<Off>>

\* The threads that call the cache.
Threads == {"t1", "t2"}

\* A thread that is in no method of the cache; ref holds the key of the entry
\* of m_data that the Value& of its last Read designates, if it holds one.
Idle(ref) ==
    [pc |-> "idle", call |-> Off, ord |-> <<>>, key |-> {}, todo |-> <<>>,
     entered |-> {}, out |-> Outcome("idle", FALSE, EmptyMap, FALSE, {}, NoTouch),
     ref |-> ref]

\* An object with the default decay border is followed while its decay counter
\* is below MaxCounter.
Followed ==
    m_cache_algo.m_decay_border = DefaultDecayBorder
        => m_cache_algo.m_decay_counter < MaxCounter

\* The iteration orders of m_key_element to tell apart in a call that makes at
\* most n Increment/Remove calls and tracks no key outside S: decay is the only
\* reader of that order, and it runs only once the counter reaches the border,
\* so one order stands for all of them in a call that cannot get there.
DecayOrders(n, S) ==
    IF m_cache_algo.m_decay_counter + n >= m_cache_algo.m_decay_border
    THEN Orders(S) ELSE {CHOOSE ord \in Orders(S) : TRUE}

\* As WriteUpdates, but with > for >= in the test for a full cache.
WriteUpdatesLate(k) ==
    {IF Cardinality(DOMAIN m_data) > m_max_size
     THEN refresh(m_cache_algo, m_data, k, ord)
     ELSE [algo |-> Insert(m_cache_algo, k, ord), data |-> m_data,
           victim |-> {}, touched |-> Touch(NoTouch, k)] :
        ord \in DecayOrders(2, Tracked(m_cache_algo) \cup {k})}

\* The body of Cache::Write up to the store of the value, for every iteration
\* order decay may meet.
WriteUpdates(k) ==
    {IF Cardinality(DOMAIN m_data) >= m_max_size
     THEN refresh(m_cache_algo, m_data, k, ord)
     ELSE [algo |-> Insert(m_cache_algo, k, ord), data |-> m_data,
           victim |-> {}, touched |-> Touch(NoTouch, k)] :
        ord \in DecayOrders(2, Tracked(m_cache_algo) \cup {k})}

\* As ReadResult, but with m_data[k] for m_data.at(k): an absent key does not
\* throw.
ReadResultUnchecked(algo, data, k) ==
    [algo |-> algo, thrown |-> algo.thrown,
     ret |-> IF algo.thrown \/ k \notin DOMAIN data THEN EmptyMap
             ELSE [x \in {k} |-> data[k]],
     touched |-> IF algo.thrown THEN NoTouch ELSE Touch(NoTouch, k)]

\* The body of Cache::Read once Increment has left the policy as algo.
ReadResult(algo, data, k) ==
    LET absent == algo.thrown \/ k \notin DOMAIN data       \* m_data.at(k)
    IN  [algo |-> algo, thrown |-> absent,
         ret |-> IF absent THEN EmptyMap ELSE [x \in {k} |-> data[k]],
         touched |-> IF algo.thrown THEN NoTouch ELSE Touch(NoTouch, k)]

ReadUpdates(k) ==
    {ReadResult(Increment(m_cache_algo, k, ord), m_data, k) :
        ord \in DecayOrders(1, Tracked(m_cache_algo))}

\* Cache::Cache(const Caching& cache_algo=Caching(), size_t max_size=50) with
\* a freshly constructed LFUCache(decay_border)
NewCache(keepWritten) ==
    /\ m_max_size \in Capacities
    /\ \E b \in DecayBorders : m_cache_algo = LFUCache(b)
    /\ m_data = EmptyMap
    /\ last = Outcome("Cache", FALSE, EmptyMap, FALSE, {}, NoTouch)
    /\ written = EmptyMap
    /\ expected = EmptyMap
    /\ played = <<>>
    /\ audit = keepWritten
    /\ fresh = Keys
    /\ m_mtx = {}
    /\ thread = [t \in Threads |-> Idle({})]

Init == NewCache(FALSE)

\* Cache::Write, but for the history fresh
WriteCall(k, v) ==
    \E r \in WriteUpdates(k) :
        /\ Followed
        /\ m_cache_algo' = Caught(r.algo)
        /\ m_data' = IF r.algo.thrown THEN r.data ELSE MapPut(r.data, k, v)
        /\ last' = Outcome("Write", r.algo.thrown, EmptyMap, FALSE, r.victim,
                           r.touched)
        /\ written' = IF r.algo.thrown \/ ~audit THEN written
                      ELSE (k :> v) @@ Without(written, r.victim)
        /\ expected' = IF r.algo.thrown THEN expected
                       ELSE (k :> v) @@ Without(expected, r.victim)
        /\ played' = Play(Call("Write", k, {v}))
        /\ UNCHANGED <<m_max_size, audit,
                    m_mtx, thread>>

\* Cache::Write
Write(k, v) == WriteCall(k, v) /\ UNCHANGED fresh

\* Cache::Write of a key that no Write was given before
WriteFresh(k, v) == k \in fresh /\ WriteCall(k, v) /\ fresh' = fresh \ {k}

\* Cache::Read
Read(k) ==
    \E r \in ReadUpdates(k) :
        /\ Followed
        /\ m_cache_algo' = Caught(r.algo)
        /\ last' = Outcome("Read", r.thrown, r.ret, FALSE, {}, r.touched)
        /\ played' = Play(Call("Read", k, {}))
        /\ UNCHANGED <<m_max_size, m_data, written, expected, audit, fresh,
                    m_mtx, thread>>

\* Cache::Contains
Contains(k) ==
    /\ last' = Outcome("Contains", FALSE, EmptyMap, k \in DOMAIN m_data, {},
                       NoTouch)
    /\ played' = <<Off>>
    /\ UNCHANGED <<m_max_size, m_cache_algo, m_data, written, expected, audit,
                   fresh,
                    m_mtx, thread>>

\* Cache::Items
Items ==
    IF m_data = EmptyMap
    THEN /\ last' = Outcome("Items", TRUE, EmptyMap, FALSE, {}, NoTouch)
         /\ played' = <<Off>>
         /\ UNCHANGED <<m_max_size, m_cache_algo, m_data, written, expected,
                        audit, fresh,
                    m_mtx, thread>>
    ELSE \E r \in {ItemsLoop(m_cache_algo, dataOrd, ord, NoTouch) :
                     ord \in DecayOrders(Cardinality(DOMAIN m_data),
                                         Tracked(m_cache_algo)),
                     dataOrd \in Orders(DOMAIN m_data)} :
            /\ Followed
            /\ m_cache_algo' = Caught(r.algo)
            /\ last' = Outcome("Items", r.algo.thrown,
                               IF r.algo.thrown THEN EmptyMap ELSE m_data,
                               FALSE, {}, r.touched)
            /\ played' = <<Off>>
            /\ UNCHANGED <<m_max_size, m_data, written, expected, audit, fresh,
                    m_mtx, thread>>

\* As Delete, but also taking the key out of the policy.
DeleteUntracks(k) ==
    /\ m_data' = IF k \in DOMAIN m_data THEN MapErase(m_data, k) ELSE m_data
    /\ m_cache_algo' = IF k \in DOMAIN m_data /\ k \in Tracked(m_cache_algo)
                       THEN Remove(m_cache_algo, k) ELSE m_cache_algo
    /\ last' = Outcome("Delete", FALSE, EmptyMap, FALSE, {}, NoTouch)
    /\ expected' = Without(expected, {k})
    /\ played' = <<Off>>
    /\ UNCHANGED <<m_max_size, written, audit, fresh,
                    m_mtx, thread>>

\* Cache::Delete
Delete(k) ==
    /\ m_data' = IF k \in DOMAIN m_data THEN MapErase(m_data, k) ELSE m_data
    /\ last' = Outcome("Delete", FALSE, EmptyMap, FALSE, {}, NoTouch)
    /\ expected' = Without(expected, {k})
    /\ played' = <<Off>>
    /\ UNCHANGED <<m_max_size, m_cache_algo, written, audit, fresh,
                    m_mtx, thread>>

Next ==
    \/ \E k \in Keys, v \in Values : Write(k, v)
    \/ \E k \in Keys : Read(k)
    \/ \E k \in Keys : Contains(k)
    \/ Items
    \/ \E k \in Keys : Delete(k)

\* One cache used through its public methods.
Spec == Init /\ [][Next]_vars

\* The same, keeping the history written.
InitAudit == NewCache(TRUE)
SpecAudit == InitAudit /\ [][Next]_vars

\* One cache that is only written, each time with a key not written before.
NextFresh == \E k \in Keys, v \in Values : WriteFresh(k, v)
SpecFresh == Init /\ [][NextFresh]_vars

\* ------------------------------------------------ LFUCache on its own
\* One LFUCache called through its public methods; m_cache_algo is that
\* object and the cache around it does not exist.

InitPolicy ==
    /\ m_max_size = 0
    /\ \E b \in PolicyDecayBorders : m_cache_algo = LFUCache(b)
    /\ m_data = EmptyMap
    /\ last = Outcome("LFUCache", FALSE, EmptyMap, FALSE, {}, NoTouch)
    /\ written = EmptyMap
    /\ expected = EmptyMap
    /\ played = <<Off>>
    /\ audit = FALSE
    /\ fresh = Keys
    /\ m_mtx = {}
    /\ thread = [t \in Threads |-> Idle({})]

PolicyCall(op, p, victim) ==
    /\ Followed
    /\ m_cache_algo' = Caught(p)
    /\ last' = Outcome(op, p.thrown, EmptyMap, FALSE, victim, NoTouch)
    /\ UNCHANGED <<m_max_size, m_data, written, expected, played, audit, fresh,
                    m_mtx, thread>>

PolicyInsert(key) ==
    \E p \in {Insert(m_cache_algo, key, ord) :
                ord \in DecayOrders(1, Tracked(m_cache_algo) \cup {key})} :
        PolicyCall("Insert", p, {})

PolicyRemove(key) == PolicyCall("Remove", Remove(m_cache_algo, key), {})

PolicyReplace ==
    PolicyCall("Replace",
               [m_cache_algo EXCEPT !.thrown = Replace(m_cache_algo) = {}],
               Replace(m_cache_algo))

PolicyIncrement(key) ==
    \E p \in {Increment(m_cache_algo, key, ord) :
                ord \in DecayOrders(1, Tracked(m_cache_algo))} :
        PolicyCall("Increment", p, {})

NextPolicy ==
    \/ \E key \in Keys : PolicyInsert(key)
    \/ \E key \in Keys : PolicyRemove(key)
    \/ PolicyReplace
    \/ \E key \in Keys : PolicyIncrement(key)

SpecPolicy == InitPolicy /\ [][NextPolicy]_vars

\* ------------------------------------------- Cache called by threads
\* Threads call the public methods of one cache.  A call is followed statement
\* by statement: the thread blocks in the constructor of its lock_guard until
\* m_mtx is free, runs the method's body, and leaves the scope, where the
\* destructor of the lock_guard releases m_mtx, on return as on an exception.
\* thread[t] holds
\*   pc       the statement t is at, named by method and source line
\*   call     the method called and its arguments
\*   ord      the iteration order of m_key_element during the call
\*   key      the local variable key of refresh
\*   todo     the entries of m_data the loop of Items has not visited yet
\*   entered  m_cache_algo and m_data as they were when t took m_mtx
\*   out      the outcome of the call, as far as it is known
\*   ref      the entry of m_data the reference returned by Read designates

MaxThreadCapacity == 1

ThreadKeys == {"A", "B"}
ThreadCapacities == 0..MaxThreadCapacity

\* The calls a thread makes.
Calls ==
    {Call("Write", k, {v}) : k \in ThreadKeys, v \in Values}
        \cup {Call(op, k, {}) : op \in {"Read", "Contains", "Delete"},
                                k \in ThreadKeys}
        \cup {Call("Items", "A", {})}

\* The first statement of a method after its lock_guard.
Body(op) ==
    CASE op = "Write"    -> "Write97"
      [] op = "Read"     -> "Read107"
      [] op = "Contains" -> "Contains113"
      [] op = "Items"    -> "Items118"
      [] op = "Delete"   -> "Delete129"

\* The iteration orders of m_key_element to tell apart in the call c.
CallOrders(c) ==
    CASE c.op = "Write" -> DecayOrders(2, ThreadKeys)
      [] c.op = "Read"  -> DecayOrders(1, ThreadKeys)
      [] c.op = "Items" -> DecayOrders(Cardinality(DOMAIN m_data), ThreadKeys)
      [] OTHER          -> {CHOOSE ord \in Orders(ThreadKeys) : TRUE}

\* Thread t goes on to statement pc.
Goto(t, pc) == thread' = [thread EXCEPT ![t].pc = pc]

\* An exception leaves the method that thread t runs.
Throw(t) == thread' = [thread EXCEPT ![t].pc = "exit", ![t].out.thrown = TRUE]

\* The call of LFUCache::Insert or LFUCache::Increment for the key k that left
\* the policy as p: the method goes on to pc unless the call threw.
Touched(t, p, k, pc) ==
    /\ m_cache_algo' = Caught(p)
    /\ thread' = [thread EXCEPT
                    ![t].pc = IF p.thrown THEN "exit" ELSE pc,
                    ![t].out.thrown = p.thrown,
                    ![t].out.touched = Touch(@, k)]

\* Thread t calls a method of the cache and gives up the reference its last
\* Read returned.
Invoke(t, c) ==
    /\ thread[t].pc = "idle"
    /\ Followed
    /\ thread' = [thread EXCEPT ![t] = [Idle({}) EXCEPT !.pc = "lock", !.call = c,
                     !.out = Outcome(c.op, FALSE, EmptyMap, FALSE, {}, NoTouch)]]
    /\ UNCHANGED <<m_max_size, m_cache_algo, m_data, last, written, expected,
                   played, audit, fresh, m_mtx>>

\* As Acquire, but without waiting for m_mtx to be free.
AcquireUnlocked(t) ==
    /\ thread[t].pc = "lock"
    /\ m_mtx' = {t}
    /\ \E ord \in CallOrders(thread[t].call) :
          thread' = [thread EXCEPT
                       ![t].pc = Body(thread[t].call.op),
                       ![t].ord = ord,
                       ![t].entered = {[algo |-> m_cache_algo, data |-> m_data]}]
    /\ UNCHANGED <<m_max_size, m_cache_algo, m_data, last, written, expected,
                   played, audit, fresh>>

\* std::lock_guard<std::mutex> lock(m_mtx): the constructor returns once it has
\* taken m_mtx.
Acquire(t) ==
    /\ thread[t].pc = "lock"
    /\ m_mtx = {}
    /\ m_mtx' = {t}
    /\ \E ord \in CallOrders(thread[t].call) :
          thread' = [thread EXCEPT
                       ![t].pc = Body(thread[t].call.op),
                       ![t].ord = ord,
                       ![t].entered = {[algo |-> m_cache_algo, data |-> m_data]}]
    /\ UNCHANGED <<m_max_size, m_cache_algo, m_data, last, written, expected,
                   played, audit, fresh>>

\* Cache::Write, if(m_data.size() >= m_max_size)
WriteTest(t) ==
    /\ thread[t].pc = "Write97"
    /\ Goto(t, IF Cardinality(DOMAIN m_data) >= m_max_size
               THEN "refresh136" ELSE "Write100")
    /\ UNCHANGED <<m_max_size, m_cache_algo, m_data, last, written, expected,
                   played, audit, fresh, m_mtx>>

\* Cache::Write, m_cache_algo.Insert(k)
WriteInsert(t) ==
    /\ thread[t].pc = "Write100"
    /\ Touched(t, Insert(m_cache_algo, thread[t].call.k, thread[t].ord),
               thread[t].call.k, "Write102")
    /\ UNCHANGED <<m_max_size, m_data, last, written, expected, played, audit,
                   fresh, m_mtx>>

\* Cache::refresh, Key key = m_cache_algo.Replace()
refreshReplace(t) ==
    /\ thread[t].pc = "refresh136"
    /\ IF Replace(m_cache_algo) = {}
       THEN Throw(t)
       ELSE \E key \in Replace(m_cache_algo) :
               thread' = [thread EXCEPT ![t].pc = "refresh137",
                                        ![t].key = {key},
                                        ![t].out.victim = {key}]
    /\ UNCHANGED <<m_max_size, m_cache_algo, m_data, last, written, expected,
                   played, audit, fresh, m_mtx>>

\* Cache::refresh, m_cache_algo.Remove(key)
refreshRemove(t) ==
    /\ thread[t].pc = "refresh137"
    /\ \E key \in thread[t].key :
          \E p \in {Remove(m_cache_algo, key)} :
             /\ m_cache_algo' = Caught(p)
             /\ IF p.thrown THEN Throw(t) ELSE Goto(t, "refresh138")
    /\ UNCHANGED <<m_max_size, m_data, last, written, expected, played, audit,
                   fresh, m_mtx>>

\* Cache::refresh, m_data.erase(key)
refreshErase(t) ==
    /\ thread[t].pc = "refresh138"
    /\ \E key \in thread[t].key : m_data' = MapErase(m_data, key)
    /\ Goto(t, "refresh139")
    /\ UNCHANGED <<m_max_size, m_cache_algo, last, written, expected, played,
                   audit, fresh, m_mtx>>

\* Cache::refresh, m_cache_algo.Insert(k)
refreshInsert(t) ==
    /\ thread[t].pc = "refresh139"
    /\ Touched(t, Insert(m_cache_algo, thread[t].call.k, thread[t].ord),
               thread[t].call.k, "Write102")
    /\ UNCHANGED <<m_max_size, m_data, last, written, expected, played, audit,
                   fresh, m_mtx>>

\* Cache::Write, m_data[k] = v
WriteStore(t) ==
    /\ thread[t].pc = "Write102"
    /\ m_data' = MapPut(m_data, thread[t].call.k, Written(thread[t].call))
    /\ Goto(t, "exit")
    /\ UNCHANGED <<m_max_size, m_cache_algo, last, written, expected, played,
                   audit, fresh, m_mtx>>

\* Cache::Read, m_cache_algo.Increment(k)
ReadIncrement(t) ==
    /\ thread[t].pc = "Read107"
    /\ \E p \in {Increment(m_cache_algo, thread[t].call.k, thread[t].ord)} :
          /\ m_cache_algo' = Caught(p)
          /\ IF p.thrown
             THEN Throw(t)
             ELSE thread' = [thread EXCEPT
                               ![t].pc = "Read108",
                               ![t].out.touched = Touch(@, thread[t].call.k)]
    /\ UNCHANGED <<m_max_size, m_data, last, written, expected, played, audit,
                   fresh, m_mtx>>

\* Cache::Read, return m_data.at(k)
ReadAt(t) ==
    /\ thread[t].pc = "Read108"
    /\ IF thread[t].call.k \in DOMAIN m_data
       THEN thread' = [thread EXCEPT
                         ![t].pc = "exit",
                         ![t].out.ret = [x \in {thread[t].call.k} |-> m_data[x]]]
       ELSE Throw(t)
    /\ UNCHANGED <<m_max_size, m_cache_algo, m_data, last, written, expected,
                   played, audit, fresh, m_mtx>>

\* Cache::Contains, return (m_data.find(k) != m_data.end())
ContainsFind(t) ==
    /\ thread[t].pc = "Contains113"
    /\ thread' = [thread EXCEPT
                    ![t].pc = "exit",
                    ![t].out.found = thread[t].call.k \in DOMAIN m_data]
    /\ UNCHANGED <<m_max_size, m_cache_algo, m_data, last, written, expected,
                   played, audit, fresh, m_mtx>>

\* Cache::Items, if(m_data.empty()) throw, and the start of the loop over
\* m_data in one of its iteration orders
ItemsEmpty(t) ==
    /\ thread[t].pc = "Items118"
    /\ IF m_data = EmptyMap
       THEN Throw(t)
       ELSE \E dataOrd \in Orders(DOMAIN m_data) :
               thread' = [thread EXCEPT ![t].pc = "Items121",
                                        ![t].todo = dataOrd]
    /\ UNCHANGED <<m_max_size, m_cache_algo, m_data, last, written, expected,
                   played, audit, fresh, m_mtx>>

\* Cache::Items, m_cache_algo.Increment(item.first)
ItemsIncrement(t) ==
    /\ thread[t].pc = "Items121"
    /\ thread[t].todo # <<>>
    /\ \E p \in {Increment(m_cache_algo, Head(thread[t].todo), thread[t].ord)} :
          /\ m_cache_algo' = Caught(p)
          /\ thread' = [thread EXCEPT
                          ![t].pc = IF p.thrown THEN "exit" ELSE "Items121",
                          ![t].out.thrown = p.thrown,
                          ![t].out.touched = Touch(@, Head(thread[t].todo)),
                          ![t].todo = Tail(@)]
    /\ UNCHANGED <<m_max_size, m_data, last, written, expected, played, audit,
                   fresh, m_mtx>>

\* Cache::Items, return m_data
ItemsCopy(t) ==
    /\ thread[t].pc = "Items121"
    /\ thread[t].todo = <<>>
    /\ thread' = [thread EXCEPT ![t].pc = "exit", ![t].out.ret = m_data]
    /\ UNCHANGED <<m_max_size, m_cache_algo, m_data, last, written, expected,
                   played, audit, fresh, m_mtx>>

\* Cache::Delete, if(m_data.find(k) != m_data.end()) m_data.erase(k)
DeleteErase(t) ==
    /\ thread[t].pc = "Delete129"
    /\ m_data' = IF thread[t].call.k \in DOMAIN m_data
                 THEN MapErase(m_data, thread[t].call.k) ELSE m_data
    /\ Goto(t, "exit")
    /\ UNCHANGED <<m_max_size, m_cache_algo, last, written, expected, played,
                   audit, fresh, m_mtx>>

\* As Exit, but releasing m_mtx only when the method returns.
ExitHoldsOnThrow(t) ==
    /\ thread[t].pc = "exit"
    /\ m_mtx' = IF thread[t].out.thrown THEN m_mtx ELSE {}
    /\ last' = thread[t].out
    /\ thread' = [thread EXCEPT ![t] =
                     Idle(IF thread[t].call.op = "Read" /\ ~thread[t].out.thrown
                          THEN {thread[t].call.k} ELSE {})]
    /\ UNCHANGED <<m_max_size, m_cache_algo, m_data, written, expected, played,
                   audit, fresh>>

\* The method leaves its scope, by return or by exception: ~lock_guard
\* releases m_mtx.  A Read that returns hands the caller a Value& to the entry
\* of its key in m_data.
Exit(t) ==
    /\ thread[t].pc = "exit"
    /\ m_mtx' = {}
    /\ last' = thread[t].out
    /\ thread' = [thread EXCEPT ![t] =
                     Idle(IF thread[t].call.op = "Read" /\ ~thread[t].out.thrown
                          THEN {thread[t].call.k} ELSE {})]
    /\ UNCHANGED <<m_max_size, m_cache_algo, m_data, written, expected, played,
                   audit, fresh>>

InitThreads ==
    /\ m_max_size \in ThreadCapacities
    /\ \E b \in DecayBorders : m_cache_algo = LFUCache(b)
    /\ m_data = EmptyMap
    /\ last = Outcome("Cache", FALSE, EmptyMap, FALSE, {}, NoTouch)
    /\ written = EmptyMap
    /\ expected = EmptyMap
    /\ played = <<Off>>
    /\ audit = FALSE
    /\ fresh = Keys
    /\ m_mtx = {}
    /\ thread = [t \in Threads |-> Idle({})]

\* One step of the method thread t is in.
Run(t) ==
    \/ WriteTest(t)
    \/ WriteInsert(t)
    \/ refreshReplace(t)
    \/ refreshRemove(t)
    \/ refreshErase(t)
    \/ refreshInsert(t)
    \/ WriteStore(t)
    \/ ReadIncrement(t)
    \/ ReadAt(t)
    \/ ContainsFind(t)
    \/ ItemsEmpty(t)
    \/ ItemsIncrement(t)
    \/ ItemsCopy(t)
    \/ DeleteErase(t)
    \/ Exit(t)

NextThreads ==
    \/ \E t \in Threads, c \in Calls : Invoke(t, c)
    \/ \E t \in Threads : Acquire(t)
    \/ \E t \in Threads : Run(t)

\* One cache called by the threads.
SpecThreads == InitThreads /\ [][NextThreads]_vars

\* The calls for one key.
LockCalls == {c \in Calls : c.k = "A"}

NextLock ==
    \/ \E t \in Threads, c \in LockCalls : Invoke(t, c)
    \/ \E t \in Threads : Acquire(t)
    \/ \E t \in Threads : Run(t)

\* One cache called by the threads for one key, under the scheduling the
\* threads and std::mutex have: a thread that is in a method goes on running,
\* and m_mtx, when free, goes to one of the threads blocked on it.
SpecLock ==
    /\ InitThreads /\ [][NextLock]_vars
    /\ WF_vars(\E t \in Threads : Acquire(t))
    /\ \A t \in Threads : WF_vars(Run(t))

\* What the call c does when it runs alone from the state s = [algo, data],
\* with the iteration order ord of m_key_element: the states it may leave and
\* its outcome.
Sequential(s, c, ord) ==
    CASE c.op = "Write" ->
           {[algo |-> Caught(r.algo),
             data |-> IF r.algo.thrown THEN r.data
                      ELSE MapPut(r.data, c.k, Written(c)),
             out  |-> Outcome("Write", r.algo.thrown, EmptyMap, FALSE, r.victim,
                              r.touched)] :
              r \in {IF Cardinality(DOMAIN s.data) >= m_max_size
                     THEN refresh(s.algo, s.data, c.k, ord)
                     ELSE [algo |-> Insert(s.algo, c.k, ord), data |-> s.data,
                           victim |-> {}, touched |-> Touch(NoTouch, c.k)]}}
      [] c.op = "Read" ->
           {[algo |-> Caught(r.algo), data |-> s.data,
             out  |-> Outcome("Read", r.thrown, r.ret, FALSE, {}, r.touched)] :
              r \in {ReadResult(Increment(s.algo, c.k, ord), s.data, c.k)}}
      [] c.op = "Contains" ->
           {[algo |-> s.algo, data |-> s.data,
             out  |-> Outcome("Contains", FALSE, EmptyMap, c.k \in DOMAIN s.data,
                              {}, NoTouch)]}
      [] c.op = "Items" ->
           IF s.data = EmptyMap
           THEN {[algo |-> s.algo, data |-> s.data,
                  out  |-> Outcome("Items", TRUE, EmptyMap, FALSE, {}, NoTouch)]}
           ELSE {[algo |-> Caught(r.algo), data |-> s.data,
                  out  |-> Outcome("Items", r.algo.thrown,
                                   IF r.algo.thrown THEN EmptyMap ELSE s.data,
                                   FALSE, {}, r.touched)] :
                   r \in {ItemsLoop(s.algo, dataOrd, ord, NoTouch) :
                            dataOrd \in Orders(DOMAIN s.data)}}
      [] c.op = "Delete" ->
           {[algo |-> s.algo,
             data |-> IF c.k \in DOMAIN s.data THEN MapErase(s.data, c.k)
                      ELSE s.data,
             out  |-> Outcome("Delete", FALSE, EmptyMap, FALSE, {}, NoTouch)]}

\* ------------------------------------------------------------ properties

\* C1: after any call on a cache (Write, Read, Contains, Items, Delete),
\* returned or failed, m_data holds at most m_max_size entries.
C1_SizeWithinCapacity == Cardinality(DOMAIN m_data) <= m_max_size

\* C2: while a cache has only been given Writes of pairwise distinct keys, as
\* many as one likes, m_data holds at most m_max_size entries after each.
C2_FreshWritesWithinCapacity ==
    last.op \in {"Cache", "Write"} => Cardinality(DOMAIN m_data) <= m_max_size

\* More distinct keys have been written than the cache holds, and the last
\* Write evicted.
C2_Witness ==
    /\ Cardinality(Keys \ fresh) > m_max_size
    /\ last.op = "Write" /\ last.victim # {}
    /\ Cardinality(DOMAIN m_data) = m_max_size

\* C3: after every call the keys the policy tracks are the keys of m_data.
C3_PolicyTracksStore == Tracked(m_cache_algo) = DOMAIN m_data

\* C4, as claimed: once Write(k, v) has returned, Read(k) returns v until k is
\* written again or evicted by the Write of another key.
C4_ReadReturnsWritten ==
    [][\A k \in Keys :
          (last'.op = "Read" /\ k \in DOMAIN written /\ Read(k))
              => (~last'.thrown /\ last'.ret = [x \in {k} |-> written[k]])]_vars

\* C4, amended: once Write(k, v) has returned, Read(k) returns v until k is
\* written again, evicted by the Write of another key, or given to Delete.
C4_ReadReturnsWrittenUntilDelete ==
    [][\A k \in Keys :
          (last'.op = "Read" /\ k \in DOMAIN expected /\ Read(k))
              => (~last'.thrown /\ last'.ret = [x \in {k} |-> expected[k]])]_vars

\* A Read returned the value written, in a cache from which another written
\* key has been deleted.
C4_Witness ==
    /\ audit /\ last.op = "Read" /\ ~last.thrown
    /\ \E k \in DOMAIN expected : last.ret = [x \in {k} |-> expected[k]]
    /\ DOMAIN written # DOMAIN expected

\* The scenario has been played on a cache of capacity 2 with the default
\* decay border.
ScenarioPlayed ==
    /\ Shape(played) = Scenario
    /\ m_max_size = 2
    /\ m_cache_algo.m_decay_border = DefaultDecayBorder

\* C5: the key a Write evicts has, among the keys tracked when the Write
\* begins, a smallest tracked frequency; and with capacity 2 and the default
\* decay border Write(A, a); Write(B, b); Read(A); Write(C, c) evicts B and
\* leaves m_data = {A: a, C: c}, whatever the values (1, 2, 3 among them once
\* Values holds them).
C5_EvictsLeastFrequent ==
    /\ [][last'.op = "Write" =>
            \A x \in last'.victim :
                /\ x \in Tracked(m_cache_algo)
                /\ \A y \in Tracked(m_cache_algo) :
                       Freq(m_cache_algo, x) <= Freq(m_cache_algo, y)]_vars
    /\ [](ScenarioPlayed =>
            /\ last.victim = {"B"}
            /\ m_data = [x \in {"A", "C"} |->
                            IF x = "A" THEN Written(played[1])
                            ELSE Written(played[4])])

\* The scenario has been played and its last Write evicted.
C5_Witness == ScenarioPlayed /\ last.op = "Write" /\ last.victim # {}

\* C6: Read(k) fails and returns nothing whenever k is not in m_data when it
\* is called.
C6_ReadOfAbsentKeyFails ==
    [][\A k \in Keys :
          (last'.op = "Read" /\ k \notin DOMAIN m_data /\ Read(k))
              => (last'.thrown /\ last'.ret = EmptyMap)]_vars

\* A Read failed for a key the policy tracks: a key that Delete took out of
\* m_data.
C6_Witness == last.op = "Read" /\ last.thrown /\ last.touched # NoTouch

\* C7: LFUCache::Remove and LFUCache::Increment fail exactly when their key is
\* not tracked, and then leave m_key_frequence, m_key_element and
\* m_decay_counter as they were.
C7_UntrackedKeyFailsUnchanged ==
    [][\A key \in Keys :
          (/\ last'.op \in {"Remove", "Increment"}
           /\ PolicyRemove(key) \/ PolicyIncrement(key))
              => /\ last'.thrown <=> key \notin Tracked(m_cache_algo)
                 /\ last'.thrown =>
                      /\ m_cache_algo'.m_key_frequence = m_cache_algo.m_key_frequence
                      /\ m_cache_algo'.m_key_element = m_cache_algo.m_key_element
                      /\ m_cache_algo'.m_decay_counter = m_cache_algo.m_decay_counter]_vars

\* A Remove or an Increment failed on a policy that tracks other keys and has
\* counted calls.
C7_Witness ==
    /\ last.op \in {"Remove", "Increment"} /\ last.thrown
    /\ Tracked(m_cache_algo) # {}
    /\ m_cache_algo.m_decay_counter > 0

\* C8: Replace fails exactly when no key is tracked, and in every state of a
\* cache a Write fails exactly when the capacity is 0.
C8_WriteFailsOnlyWithoutCapacity ==
    /\ Replace(m_cache_algo) = {} <=> Tracked(m_cache_algo) = {}
    /\ \A k \in Keys : \A r \in WriteUpdates(k) :
           r.algo.thrown <=> m_max_size = 0
    /\ last.op = "Write" => (last.thrown <=> m_max_size = 0)

\* A Write found the cache full, evicted and returned, in a cache where Delete
\* has left the policy tracking a key that m_data does not hold.
C8_Witness ==
    /\ last.op = "Write" /\ ~last.thrown /\ m_max_size > 0
    /\ last.victim # {}
    /\ Tracked(m_cache_algo) # DOMAIN m_data

\* C9: Items fails and changes nothing on an empty cache; otherwise it returns
\* a copy of m_data, leaves m_data alone and calls Increment once for every key
\* the policy tracks.
C9_ItemsTouchesEveryTrackedKey ==
    [][(last'.op = "Items" /\ Items) =>
          IF m_data = EmptyMap
          THEN last'.thrown /\ UNCHANGED <<m_cache_algo, m_data>>
          ELSE /\ ~last'.thrown
               /\ last'.ret = m_data
               /\ m_data' = m_data
               /\ \A k \in Keys :
                      last'.touched[k] = IF k \in Tracked(m_cache_algo) THEN 1 ELSE 0]_vars

\* C10: Delete(k) never fails; it leaves k out of m_data and every other entry
\* as it was, changes nothing when k was absent, and leaves the policy as it
\* was in both cases.
C10_DeleteLeavesPolicy ==
    [][\A k \in Keys :
          (last'.op = "Delete" /\ Delete(k)) =>
              /\ ~last'.thrown
              /\ k \notin DOMAIN m_data'
              /\ \A x \in Keys \ {k} :
                     /\ x \in DOMAIN m_data' <=> x \in DOMAIN m_data
                     /\ x \in DOMAIN m_data => m_data'[x] = m_data[x]
              /\ k \notin DOMAIN m_data =>
                     m_data' = m_data /\ m_max_size' = m_max_size
              /\ m_cache_algo' = m_cache_algo]_vars

\* A Delete took a key out of m_data that the policy goes on tracking.
C10_Witness ==
    /\ last.op = "Delete"
    /\ Tracked(m_cache_algo) \ DOMAIN m_data # {}

\* Thread t is past its lock_guard and has not left the method.
InMethod(t) == thread[t].pc \notin {"idle", "lock"}

\* C11: whatever the interleaving of the threads' calls, every call leaves, when
\* it exits, the outcome, the policy and the store that the same call leaves
\* when it runs alone from the state in which it took the lock, and nothing
\* changes the policy or the store while no call holds the lock: the calls take
\* effect one after the other, in the order in which they took the lock.  A
\* Write(k, v) that returns leaves k mapped to v, so of two concurrent Writes
\* of k none is lost and k is left with the value of one of them.
C11_CallsTakeEffectInLockOrder ==
    /\ [][\A t \in Threads :
            (thread[t].pc = "exit" /\ Exit(t)) =>
                /\ \E s \in thread[t].entered :
                      \E r \in Sequential(s, thread[t].call, thread[t].ord) :
                         /\ m_cache_algo' = r.algo
                         /\ m_data' = r.data
                         /\ last' = r.out
                /\ (thread[t].call.op = "Write" /\ ~last'.thrown) =>
                      /\ thread[t].call.k \in DOMAIN m_data'
                      /\ m_data'[thread[t].call.k] = Written(thread[t].call)]_vars
    /\ [][m_mtx = {} => UNCHANGED <<m_cache_algo, m_data>>]_vars

\* A Write of a key has returned while the other thread was blocked in a Write
\* of the same key with another value, in a cache that evicts.
C11_Witness ==
    /\ last.op = "Write" /\ ~last.thrown /\ last.victim # {}
    /\ m_mtx = {}
    /\ \E t \in Threads :
          /\ thread[t].pc = "lock"
          /\ thread[t].call.op = "Write"
          /\ last.touched[thread[t].call.k] = 1
          /\ m_data[thread[t].call.k] # Written(thread[t].call)

\* C12: the thread that is in a method past its lock_guard owns m_mtx, so at
\* most one thread is there at a time, and only that thread changes the policy
\* or the store; m_mtx is free once the method is left, by return or by
\* exception; and whenever no thread is in a method (the last call may have
\* failed) and a thread is blocked on m_mtx, a blocked thread gets it and
\* enters its method.
C12_LockHeldAndReleased ==
    /\ [](\A t \in Threads : InMethod(t) => m_mtx = {t})
    /\ [][\A t \in Threads :
            (thread[t].pc = "exit" /\ Exit(t)) => m_mtx' = {}]_vars
    /\ [][<<m_cache_algo, m_data>>' # <<m_cache_algo, m_data>> =>
            \E t \in Threads :
                m_mtx = {t} /\ m_mtx' = {t} /\ thread'[t] # thread[t]]_vars
    /\ (((\A t \in Threads : ~InMethod(t)) /\ \E t \in Threads : thread[t].pc = "lock")
            ~> (\E t \in Threads : InMethod(t)))

\* A call has failed and left m_mtx free, and the other thread has taken it
\* since.
C12_Witness ==
    /\ last.thrown
    /\ \E t \in Threads : InMethod(t) /\ m_mtx = {t}
    /\ \E t \in Threads : thread[t].pc = "idle"

\* C13: the entry of m_data that the result of a returned Read designates is
\* not touched by any step of another thread for as long as the caller holds
\* that result: it stays in m_data with the value it had.
C13_ReadResultOutOfReach ==
    [][\A t \in Threads : \A k \in thread[t].ref :
          thread'[t].ref = thread[t].ref =>
              /\ k \in DOMAIN m_data'
              /\ m_data'[k] = m_data[k]]_vars

\* C14: in every state of a policy called through Insert, Increment, Remove
\* and Replace, decay passes included, every key of m_key_element has exactly
\* one node in m_key_frequence, its iterator designates that node, and
\* m_key_frequence has no node for any other key.
C14_IndexesAgree ==
    LET mm == m_cache_algo.m_key_frequence
        el == m_cache_algo.m_key_element
    IN  /\ \A k \in DOMAIN el :
              /\ Cardinality({i \in DOMAIN mm : mm[i].second = k}) = 1
              /\ el[k].second = k
              /\ \E i \in DOMAIN mm : mm[i] = el[k]
        /\ \A i \in DOMAIN mm : mm[i].second \in DOMAIN el

\* A decay pass has just run inside an Insert, over keys of which two have
\* the same frequency.
C14_Witness ==
    /\ last.op = "Insert" /\ m_cache_algo.m_decay_counter = 0
    /\ \E x, y \in Tracked(m_cache_algo) :
          x # y /\ Freq(m_cache_algo, x) = Freq(m_cache_algo, y)

\* C15: an Insert(key) of a key that was not tracked, during which no decay
\* ran, leaves the key with the frequency 1.
C15_FreshInsertLeavesOne ==
    [][\A key \in Keys :
          (/\ last'.op = "Insert"
           /\ key \notin Tracked(m_cache_algo)
           /\ m_cache_algo'.m_decay_counter = m_cache_algo.m_decay_counter + 1
           /\ PolicyInsert(key))
              => Freq(m_cache_algo', key) = 1]_vars

\* C16: a Write of a key that m_data holds, during which no decay runs, raises
\* the key's frequency by exactly 1, whether the cache is full or not; and a
\* Write of a new key leaves it with the frequency 1, so that three Writes of
\* a new key leave it with the frequency 3.
C16_WriteRaisesByOne ==
    [][\A k \in Keys :
          (/\ last'.op = "Write" /\ ~last'.thrown
           /\ m_cache_algo'.m_decay_counter > m_cache_algo.m_decay_counter
           /\ \E v \in Values : Write(k, v))
              => IF k \in DOMAIN m_data
                 THEN Freq(m_cache_algo', k) = Freq(m_cache_algo, k) + 1
                 ELSE k \notin Tracked(m_cache_algo)
                          => Freq(m_cache_algo', k) = 1]_vars

\* The frequency an Increment(key) or Remove(key) gives the key x before any
\* decay.
Applied(op, key, x) ==
    Freq(m_cache_algo, x) + (IF op = "Increment" /\ x = key THEN 1 ELSE 0)

\* C17, as claimed: a mutating operation (Increment or Remove) that finds the
\* decay counter at the decay border first halves every frequency and then
\* applies its own effect, and no other operation halves anything.
C17_DecayBeforeNextOperation ==
    [][\A key \in Keys :
          (/\ last'.op \in {"Increment", "Remove"} /\ ~last'.thrown
           /\ PolicyIncrement(key) \/ PolicyRemove(key))
              => \A x \in Tracked(m_cache_algo') :
                    Freq(m_cache_algo', x) =
                        IF m_cache_algo.m_decay_counter = m_cache_algo.m_decay_border
                        THEN (Freq(m_cache_algo, x) \div 2)
                                 + (Applied(last'.op, key, x) - Freq(m_cache_algo, x))
                        ELSE Applied(last'.op, key, x)]_vars

\* C17, amended: an Increment that brings the decay counter to the decay
\* border or beyond applies its own effect, then halves every frequency and
\* sets the counter to 0; an Increment that leaves the counter below the
\* border, and every Remove, add 1 to the counter and halve nothing.
C17_DecayWithIncrementAtBorder ==
    [][\A key \in Keys :
          (/\ last'.op \in {"Increment", "Remove"} /\ ~last'.thrown
           /\ PolicyIncrement(key) \/ PolicyRemove(key))
              => IF /\ last'.op = "Increment"
                    /\ m_cache_algo.m_decay_counter + 1 >= m_cache_algo.m_decay_border
                 THEN /\ m_cache_algo'.m_decay_counter = 0
                      /\ \A x \in Tracked(m_cache_algo') :
                            Freq(m_cache_algo', x) = Applied(last'.op, key, x) \div 2
                 ELSE /\ m_cache_algo'.m_decay_counter
                            = m_cache_algo.m_decay_counter + 1
                      /\ \A x \in Tracked(m_cache_algo') :
                            Freq(m_cache_algo', x) = Applied(last'.op, key, x)]_vars

\* Removes have taken the decay counter past the decay border without a decay.
C17_Witness ==
    /\ last.op = "Remove" /\ ~last.thrown
    /\ m_cache_algo.m_decay_counter > m_cache_algo.m_decay_border
    /\ Tracked(m_cache_algo) # {}

\* C18: an Increment(key) that brings the decay counter to the decay border
\* leaves every tracked key with half (rounded down) the frequency it has once
\* the increment is applied, tracks the same keys as before, does not put a
\* key with a lower frequency above one with a higher frequency, and leaves
\* the decay counter at 0.
C18_DecayHalvesAfterIncrement ==
    [][\A key \in Keys :
          (/\ last'.op = "Increment"
           /\ key \in Tracked(m_cache_algo)
           /\ m_cache_algo.m_decay_counter + 1 = m_cache_algo.m_decay_border
           /\ PolicyIncrement(key))
              => /\ Tracked(m_cache_algo') = Tracked(m_cache_algo)
                 /\ \A x \in Tracked(m_cache_algo) :
                       Freq(m_cache_algo', x) = Applied("Increment", key, x) \div 2
                 /\ \A x, y \in Tracked(m_cache_algo) :
                       Applied("Increment", key, x) < Applied("Increment", key, y)
                           => Freq(m_cache_algo', x) <= Freq(m_cache_algo', y)
                 /\ m_cache_algo'.m_decay_counter = 0]_vars

\* An Increment has just run a decay pass that left two keys with different
\* frequencies.
C18_Witness ==
    /\ last.op = "Increment" /\ ~last.thrown
    /\ m_cache_algo.m_decay_counter = 0
    /\ \E x, y \in Tracked(m_cache_algo) :
          Freq(m_cache_algo, x) < Freq(m_cache_algo, y)

\* C19: in every state of a cache every key of m_data is tracked by the
\* policy, so a Read of a key of m_data and Items on a cache that is not empty
\* do not fail.
C19_StoredKeysAreTracked ==
    /\ DOMAIN m_data \subseteq Tracked(m_cache_algo)
    /\ \A k \in DOMAIN m_data : \A r \in ReadUpdates(k) : ~r.thrown
    /\ \A dataOrd \in Orders(DOMAIN m_data) :
          \A ord \in DecayOrders(Cardinality(DOMAIN m_data), Tracked(m_cache_algo)) :
             ~ItemsLoop(m_cache_algo, dataOrd, ord, NoTouch).algo.thrown
    /\ (last.op = "Items" /\ last.thrown) => m_data = EmptyMap

\* A Read or Items has returned in a cache whose policy tracks a key that
\* Delete took out of m_data.
C19_Witness ==
    /\ last.op \in {"Read", "Items"} /\ ~last.thrown
    /\ DOMAIN m_data # {}
    /\ Tracked(m_cache_algo) \ DOMAIN m_data # {}

\* C20: a call on a cache that fails leaves m_data, the tracked keys, their
\* frequencies and the decay counter as they were.
C20_FailedCallChangesNothing ==
    [][last'.thrown =>
          /\ m_data' = m_data
          /\ Tracked(m_cache_algo') = Tracked(m_cache_algo)
          /\ \A k \in Tracked(m_cache_algo) :
                Freq(m_cache_algo', k) = Freq(m_cache_algo, k)
          /\ m_cache_algo'.m_decay_counter = m_cache_algo.m_decay_counter]_vars

====
